---------------------------- MODULE Spec2Model ----------------------------
(***************************************************************************)
(* Bernoulli multi-armed bandit experiment runner (controller.py) and its  *)
(* four agents (randomAgent, epsGreedyAgent, UCBAgent, thompsonAgent).     *)
(*                                                                         *)
(* Numbers.  Probabilities, random.random() values and regrets are held    *)
(* in hundredths (0.9 is 90).  A running mean is an exact fraction         *)
(* <<num, den>> in lowest terms.  Arm indices are 0-based as in the        *)
(* source; sequences are 1-based, so arm i is element i+1.                 *)
(***************************************************************************)
EXTENDS Integers, Sequences, FiniteSets, TLC

VARIABLES
    config,              \* lines[1:] of the bandit definition file
    arms,                \* Bandit.arms
    rng,                 \* state of the global `random` generator
    pending,             \* agent classes whose experiment has not started
    agent,               \* agent_class of the running experiment
    epsilon,             \* epsGreedyAgent.epsilon
    arm_counts,          \* epsGreedyAgent / UCBAgent .arm_counts (None or list)
    arm_values,          \* epsGreedyAgent / UCBAgent .arm_values (None or list)
    total_counts,        \* UCBAgent.total_counts
    thompson_arms,       \* thompsonAgent.arms (None or list of alpha/beta)
    choose,              \* branch taken by the last recommendArm
    history,             \* run_experiment: history
    cumulative_rewards,  \* run_experiment: cumulative_rewards
    regrets,             \* run_experiment: regrets
    best_expected,       \* run_experiment: best_expected
    total_reward,        \* run_experiment: total_reward
    total_regret,        \* run_experiment: total_regret
    t,                   \* run_experiment: loop index
    num_plays,           \* run_experiment: num_plays
    arm_idx,             \* run_experiment: arm_idx
    pc,                  \* position in main / run_experiment
    exception,           \* the exception that ended the program, "" if none
    rewards_results,     \* main: rewards_results
    regret_results,      \* main: regret_results
    execution,           \* 1 for the first execution of the program, 2 for a repeat
    first_rewards,       \* rewards_results of the first execution
    first_regrets,       \* regret_results of the first execution
    calls                \* the recommendArm calls made on the first of two bandits

banditVars == <<config, arms>>
agentVars  == <<agent, epsilon, arm_counts, arm_values, total_counts,
                thompson_arms, choose>>
runVars    == <<history, cumulative_rewards, regrets, best_expected,
                total_reward, total_regret, t, num_plays>>
mainVars   == <<pending, rewards_results, regret_results, execution,
                first_rewards, first_regrets, calls>>
vars == <<config, arms, rng, pending, agent, epsilon, arm_counts, arm_values,
          total_counts, thompson_arms, choose, history, cumulative_rewards,
          regrets, best_expected, total_reward, total_regret, t, num_plays,
          arm_idx, pc, exception, rewards_results, regret_results, execution,
          first_rewards, first_regrets, calls>>

-----------------------------------------------------------------------------
(* Bounds *)

\* --num_plays of the experiments explored
NumPlays == 4

\* largest number of observations in one history passed by a direct caller
MaxChunk == 2

\* number of recommendArm calls a direct caller makes
MaxCalls == 3

\* number of observations a direct caller delivers in all
MaxDelivered == 4

\* number of distinct --seed values explored
NumSeeds == 2

-----------------------------------------------------------------------------
(* Python values *)

\* Optional[...]: None is <<>>, a present value x is <<x>>
None == <<>>

Some(x) == <<x>>

IsNone(o) == o = <<>>

Val(o) == o[1]

\* [x] * n
Repeat(x, n) == [i \in 1..n |-> x]

\* whether seq[i] is defined for a Python list: negative indices count from the end
InRange(seq, i) == /\ i < Len(seq)
                   /\ i >= 0 - Len(seq)

\* seq[i] for a Python list
Item(seq, i) == IF i >= 0 THEN seq[i + 1] ELSE seq[Len(seq) + i + 1]

\* max(xs) of a non-empty list
Max(xs) == CHOOSE v \in {xs[i] : i \in 1..Len(xs)} :
               \A j \in 1..Len(xs) : xs[j] <= v

RECURSIVE Gcd(_, _)
Gcd(a, b) == IF b = 0 THEN a ELSE Gcd(b, a % b)

-----------------------------------------------------------------------------
(* The global `random` generator and numpy's own generator *)

\* values random.random() is observed at, in hundredths: 0.0, 0.05, 0.5, 0.95
RandomPoints == <<0, 5, 50, 95>>

\* one raw draw of the generator
Raw == 1..Len(RandomPoints)

\* the stream a seed fixes: the raw draw at position pos after random.seed(seed)
Stream(seed, pos) == 1 + ((seed * 7 + pos * (seed + 3) + (pos * pos) \div 2)
                            % Len(RandomPoints))

\* both generators seeded from the system's entropy (no --seed)
Entropy == [seed |-> -1, pos |-> 0, np_seed |-> -1, np_pos |-> 0]

\* random.seed(seed): numpy's generator is not seeded by it
Seeded(seed) == [seed |-> seed, pos |-> 0, np_seed |-> -1, np_pos |-> 0]

\* random.seed(seed) and np.random.seed(seed): every draw is fixed
SeededBoth(seed) == [seed |-> seed, pos |-> 0, np_seed |-> seed, np_pos |-> 0]

\* the values the (j+1)-th next draw can take
NextDraws(g, j) == IF g.seed = -1 THEN Raw ELSE {Stream(g.seed, g.pos + j)}

\* the generator after n draws
Advance(g, n) == IF g.seed = -1 THEN g ELSE [g EXCEPT !.pos = @ + n]

\* random.random() for raw draw r, in hundredths
RandomFloat(r) == RandomPoints[r]

\* RandBelow with the upper end included
RandBelowInclusive(r, n) == (r - 1) % (n + 1)

\* random.randrange(n), random.choice over n items: an index below n
RandBelow(r, n) == (r - 1) % n

\* values one np.random.beta sample is observed at, in hundredths
BetaPoints == <<25, 75>>

BetaSamples == {BetaPoints[i] : i \in 1..Len(BetaPoints)}

\* the np.random.beta sample at position pos of the stream a seed fixes
BetaStream(seed, pos) == BetaPoints[1 + ((seed + pos + (pos * pos) \div 2)
                                          % Len(BetaPoints))]

\* the lists the next n np.random.beta samples can be
NpSamples(g, n) ==
    IF g.np_seed = -1 THEN [1..n -> BetaSamples]
    ELSE {[i \in 1..n |-> BetaStream(g.np_seed, g.np_pos + i - 1)]}

\* numpy's generator after n samples
AdvanceNp(g, n) == IF g.np_seed = -1 THEN g ELSE [g EXCEPT !.np_pos = @ + n]

-----------------------------------------------------------------------------
(* Bandit *)

\* float(x) for the lines of the files explored, in hundredths
FloatTable == [s \in {"0.0", "0.1", "0.2", "0.5", "0.8", "0.9", "1.0",
                      "1.5", "-0.2"} |->
                 CASE s = "0.0" -> 0
                   [] s = "0.1" -> 10
                   [] s = "0.2" -> 20
                   [] s = "0.5" -> 50
                   [] s = "0.8" -> 80
                   [] s = "0.9" -> 90
                   [] s = "1.0" -> 100
                   [] s = "1.5" -> 150
                   [] s = "-0.2" -> -20]

\* whether float(x) succeeds
IsFloat(s) == s \in DOMAIN FloatTable

\* the bandit definition files explored (their lines after the header)
Configs == { <<"0.1", "0.9", "0.5">>,
             <<"0.2", "0.8">>,
             <<"0.5">>,
             <<"0.0", "1.0">>,
             <<"1.5", "-0.2">>,
             <<"0.5", "abc">>,
             <<>> }

\* Bandit.from_file: probs = [float(x) for x in lines[1:]]
from_file(lines) == [i \in 1..Len(lines) |-> FloatTable[lines[i]]]

\* Bandit.getNumArms
getNumArms == Len(arms)

\* Bandit.getMaxExpectedReward
getMaxExpectedReward == Max(arms)

\* pull_arm paying -1 for a miss
pull_arm_signed(i, r) == IF RandomFloat(r) <= Item(arms, i) THEN 1 ELSE -1

\* Bandit.pull_arm: 1 if random.random() <= p else 0, for raw draw r
pull_arm(i, r) == IF RandomFloat(r) <= Item(arms, i) THEN 1 ELSE 0

-----------------------------------------------------------------------------
(* Exact fractions <<num, den>>, den > 0, for the running means *)

Abs(n) == IF n < 0 THEN 0 - n ELSE n

\* n/d in lowest terms with a positive denominator
Norm(n, d) == LET g == Gcd(Abs(n), Abs(d))
              IN  IF d < 0 THEN <<(0 - n) \div g, (0 - d) \div g>>
                           ELSE <<n \div g, d \div g>>

FracOfInt(n) == <<n, 1>>

FracAdd(x, y) == Norm(x[1] * y[2] + y[1] * x[2], x[2] * y[2])

FracSub(x, y) == Norm(x[1] * y[2] - y[1] * x[2], x[2] * y[2])

FracDivInt(x, n) == Norm(x[1], x[2] * n)

\* x > y
FracGT(x, y) == x[1] * y[2] > y[1] * x[2]

\* seq with seq[i] = v, for a Python index i in range
Store(seq, i, v) == [seq EXCEPT ![IF i >= 0 THEN i + 1 ELSE Len(seq) + i + 1] = v]

\* the branch labels an agent reports ("[choose] ..." of the debug output)
NoChoice == ""

-----------------------------------------------------------------------------
(* randomAgent *)

\* randomAgent.recommendArm: random.choice(range(numArms))
randomAgent_recommendArm(h) ==
    \E r \in NextDraws(rng, 0) :
        /\ arm_idx' = RandBelow(r, getNumArms)
        /\ rng' = Advance(rng, 1)
        /\ choose' = "random"
        /\ UNCHANGED <<arm_counts, arm_values, total_counts, thompson_arms>>

-----------------------------------------------------------------------------
(* epsGreedyAgent *)

\* epsGreedyAgent.__init__: epsilon = 0.10
EpsilonDefault == 10

\* the epsilon values agents are constructed with: 0 and the default
Epsilons == {0, EpsilonDefault}

\* _ensure_init, both agents: the statistics after the lazy initialisation
ensure_init(num_arms) ==
    IF IsNone(arm_counts) \/ IsNone(arm_values)
    THEN [counts |-> Repeat(0, num_arms),
          values |-> Repeat(FracOfInt(0), num_arms),
          total  |-> total_counts]
    ELSE [counts |-> Val(arm_counts),
          values |-> Val(arm_values),
          total  |-> total_counts]

\* ingest_one storing n_old for n_new
ingest_one_uncounted(st, obs) ==
    LET n_old    == Item(st.counts, obs[1])
        mean_old == Item(st.values, obs[1])
        n_new    == n_old + 1
        mean_new == FracAdd(mean_old,
                            FracDivInt(FracSub(FracOfInt(obs[2]), mean_old), n_new))
    IN  [st EXCEPT !.counts = Store(st.counts, obs[1], n_old),
                   !.values = Store(st.values, obs[1], mean_new)]

\* ingest_one averaging the old mean and the reward
ingest_one_halved(st, obs) ==
    LET n_old    == Item(st.counts, obs[1])
        mean_old == Item(st.values, obs[1])
        n_new    == n_old + 1
        mean_new == FracDivInt(FracAdd(mean_old, FracOfInt(obs[2])), 2)
    IN  [st EXCEPT !.counts = Store(st.counts, obs[1], n_new),
                   !.values = Store(st.values, obs[1], mean_new)]

\* the body of the loop of _ingest_history: the running mean and count of one arm
ingest_one(st, obs) ==
    LET n_old    == Item(st.counts, obs[1])
        mean_old == Item(st.values, obs[1])
        n_new    == n_old + 1
        mean_new == FracAdd(mean_old,
                            FracDivInt(FracSub(FracOfInt(obs[2]), mean_old), n_new))
    IN  [st EXCEPT !.counts = Store(st.counts, obs[1], n_new),
                   !.values = Store(st.values, obs[1], mean_new)]

\* epsGreedyAgent._ingest_history
RECURSIVE Greedy_ingest_history(_, _)
Greedy_ingest_history(st, h) ==
    IF h = <<>> THEN st
    ELSE Greedy_ingest_history(ingest_one(st, Head(h)), Tail(h))

\* ArgmaxScan replacing the best on >= for >
RECURSIVE ArgmaxScanLast(_, _, _, _)
ArgmaxScanLast(xs, i, best_i, best_v) ==
    IF i > Len(xs) THEN best_i
    ELSE IF ~FracGT(best_v, xs[i]) THEN ArgmaxScanLast(xs, i + 1, i - 1, xs[i])
         ELSE ArgmaxScanLast(xs, i + 1, best_i, best_v)

\* the loop of _argmax from index i (1-based) on, with the best so far
RECURSIVE ArgmaxScan(_, _, _, _)
ArgmaxScan(xs, i, best_i, best_v) ==
    IF i > Len(xs) THEN best_i
    ELSE IF FracGT(xs[i], best_v) THEN ArgmaxScan(xs, i + 1, i - 1, xs[i])
         ELSE ArgmaxScan(xs, i + 1, best_i, best_v)

\* argmax taken over the bandit's arm probabilities instead of xs
argmax_of_probabilities(xs) ==
    ArgmaxScan([i \in 1..Len(xs) |-> FracOfInt(arms[i])], 1, 0,
               FracOfInt(arms[1]))

\* epsGreedyAgent._argmax
argmax(xs) == ArgmaxScan(xs, 1, 0, xs[1])

\* Explores with <= for <
ExploresOnEqual(r) == RandomFloat(r) <= epsilon

\* whether random.random() < self.epsilon for raw draw r
Explores(r) == RandomFloat(r) < epsilon

\* epsGreedyAgent.recommendArm
epsGreedyAgent_recommendArm(h) ==
    LET st == Greedy_ingest_history(ensure_init(getNumArms), h)
    IN  /\ arm_counts' = Some(st.counts)
        /\ arm_values' = Some(st.values)
        /\ \E r1 \in NextDraws(rng, 0) :
              IF Explores(r1)
              THEN \E r2 \in NextDraws(rng, 1) :
                      /\ arm_idx' = RandBelow(r2, getNumArms)
                      /\ rng' = Advance(rng, 2)
                      /\ choose' = "explore"
              ELSE /\ arm_idx' = argmax(st.values)
                   /\ rng' = Advance(rng, 1)
                   /\ choose' = "exploit"
        /\ UNCHANGED <<total_counts, thompson_arms>>

-----------------------------------------------------------------------------
(* UCBAgent *)

\* UCBAgent.__init__: c = 2.0
UcbC == 2

\* float('-inf') of best_ucb: below every bound, which are all >= 0
NegInf == -1

\* math.log(n) in ten-thousandths, rounded, for n = 1..40
LogTable == << 0, 6931, 10986, 13863, 16094, 17918, 19459, 20794, 21972, 23026,
               23979, 24849, 25649, 26391, 27081, 27726, 28332, 28904, 29444,
               29957, 30445, 30910, 31355, 31781, 32189, 32581, 32958, 33322,
               33673, 34012, 34340, 34657, 34965, 35264, 35553, 35835, 36109,
               36376, 36636, 36889 >>

\* the largest r in lo..hi with r * r <= n
RECURSIVE SqrtBetween(_, _, _)
SqrtBetween(n, lo, hi) ==
    IF lo >= hi THEN lo
    ELSE LET mid == (lo + hi + 1) \div 2
         IN  IF mid * mid <= n THEN SqrtBetween(n, mid, hi)
                               ELSE SqrtBetween(n, lo, mid - 1)

\* math.sqrt(x) in ten-thousandths, for x = n / 10^8
Sqrt(n) == SqrtBetween(n, 0, 20000)

\* mean + c * sqrt(ln_t / n) of arm i (1-based), in ten-thousandths
Ucb(st, i) ==
    LET mean  == (st.values[i][1] * 10000) \div st.values[i][2]
        n     == st.counts[i]
        ln_t  == LogTable[st.total]
        bonus == UcbC * Sqrt((ln_t * 10000) \div n)
    IN  mean + bonus

\* UCB_ingest_history raising total_counts once per call
UCB_ingest_history_per_call(st, h) ==
    [Greedy_ingest_history(st, h) EXCEPT !.total = @ + 1]

\* UCBAgent._ingest_history
RECURSIVE UCB_ingest_history(_, _)
UCB_ingest_history(st, h) ==
    IF h = <<>> THEN st
    ELSE UCB_ingest_history(
             [ingest_one(st, Head(h)) EXCEPT !.total = @ + 1], Tail(h))

\* the arms with no play yet, 0-based
Unplayed(st) == {i \in 0..(Len(st.counts) - 1) : st.counts[i + 1] = 0}

\* FirstUnplayed scanning from the last arm down
LastUnplayed(st) == CHOOSE i \in Unplayed(st) : \A j \in Unplayed(st) : i >= j

\* the first i in range(num_arms) with arm_counts[i] == 0
FirstUnplayed(st) == CHOOSE i \in Unplayed(st) : \A j \in Unplayed(st) : i <= j

\* UcbScan with best_ucb starting at 0 for -inf
RECURSIVE UcbScanFromZero(_, _, _, _)
UcbScanFromZero(st, i, best_i, best_ucb) ==
    IF i > Len(st.counts) THEN best_i
    ELSE IF Ucb(st, i) > (IF best_ucb < 0 THEN 0 ELSE best_ucb)
         THEN UcbScanFromZero(st, i + 1, i - 1, Ucb(st, i))
         ELSE UcbScanFromZero(st, i + 1, best_i, best_ucb)

\* the loop over the bounds from index i (1-based) on, with the best so far
RECURSIVE UcbScan(_, _, _, _)
UcbScan(st, i, best_i, best_ucb) ==
    IF i > Len(st.counts) THEN best_i
    ELSE IF Ucb(st, i) > best_ucb THEN UcbScan(st, i + 1, i - 1, Ucb(st, i))
         ELSE UcbScan(st, i + 1, best_i, best_ucb)

\* UCBAgent.recommendArm
UCBAgent_recommendArm(h) ==
    LET st == UCB_ingest_history(ensure_init(getNumArms), h)
    IN  /\ arm_counts' = Some(st.counts)
        /\ arm_values' = Some(st.values)
        /\ total_counts' = st.total
        /\ IF Unplayed(st) # {}
           THEN /\ arm_idx' = FirstUnplayed(st)
                /\ choose' = "initial play"
           ELSE /\ arm_idx' = UcbScan(st, 1, -1, NegInf)
                /\ choose' = "max UCB"
        /\ UNCHANGED <<rng, thompson_arms>>

-----------------------------------------------------------------------------
(* thompsonAgent *)

\* thompsonAgent.recommendArm, lazy initialisation: the prior of every arm
thompson_init ==
    IF IsNone(thompson_arms)
    THEN Repeat([alpha |-> 1, beta |-> 1], getNumArms)
    ELSE Val(thompson_arms)

\* thompsonAgent.update
update(ab, arm, reward) ==
    IF reward = 1
    THEN Store(ab, arm, [Item(ab, arm) EXCEPT !.alpha = @ + 1])
    ELSE Store(ab, arm, [Item(ab, arm) EXCEPT !.beta = @ + 1])

\* thompson_ingest updating on every observation of the history
RECURSIVE thompson_ingest_all(_, _)
thompson_ingest_all(ab, h) ==
    IF h = <<>> THEN ab
    ELSE thompson_ingest_all(update(ab, Head(h)[1], Head(h)[2]), Tail(h))

\* thompson_ingest reading history[0] for history[-1]
thompson_ingest_first(ab, h) ==
    IF h # <<>> THEN update(ab, h[1][1], h[1][2]) ELSE ab

\* the posterior after the history of one call has been looked at
thompson_ingest(ab, h) ==
    IF h # <<>> THEN update(ab, h[Len(h)][1], h[Len(h)][2]) ELSE ab

\* best_arms: the indices (0-based, increasing) whose sample is the maximum
best_arms(samples) ==
    LET max_sample == Max(samples)
        F[i \in 0..Len(samples)] ==
            IF i = 0 THEN <<>>
            ELSE IF samples[i] = max_sample THEN Append(F[i - 1], i - 1)
                 ELSE F[i - 1]
    IN  F[Len(samples)]

\* thompsonAgent.recommendArm
thompsonAgent_recommendArm(h) ==
    LET ab == thompson_ingest(thompson_init, h)
    IN  /\ thompson_arms' = Some(ab)
        /\ \E samples \in NpSamples(rng, Len(ab)) :
              \E r \in NextDraws(rng, 0) :
                  LET best == best_arms(samples)
                  IN  arm_idx' = best[RandBelow(r, Len(best)) + 1]
        /\ rng' = AdvanceNp(Advance(rng, 1), Len(ab))
        /\ choose' = "sample"
        /\ UNCHANGED <<arm_counts, arm_values, total_counts>>

-----------------------------------------------------------------------------
(* A custom agent class that keeps no statistics and may return any integer *)

\* the indices a custom agent returns: from below -numArms to above numArms - 1
CustomIndices == (0 - getNumArms - 1)..getNumArms

\* recommendArm of a custom agent
customAgent_recommendArm(h) ==
    /\ arm_idx' \in CustomIndices
    /\ choose' = "custom"
    /\ UNCHANGED <<rng, arm_counts, arm_values, total_counts, thompson_arms>>

-----------------------------------------------------------------------------
(* run_experiment and main *)

\* an agent_class: calling it constructs the agent
Factory(class, eps) == [class |-> class, epsilon |-> eps]

\* AGENTS_MAP, in insertion order; every class is constructed with its defaults
AGENTS_MAP == << Factory("randomAgent", EpsilonDefault),
                 Factory("epsGreedyAgent", EpsilonDefault),
                 Factory("UCBAgent", EpsilonDefault),
                 Factory("thompsonAgent", EpsilonDefault) >>

\* the agent classes run_experiment is called with
AgentClasses == { AGENTS_MAP[i] : i \in 1..Len(AGENTS_MAP) }
                    \cup { Factory("epsGreedyAgent", e) : e \in Epsilons }
                    \cup { Factory("customAgent", EpsilonDefault) }

\* a dict with d[k] = v
SetItem(d, k, v) == (k :> v) @@ d

\* main, lines 176-180: the bandit is built from the file
Load ==
    /\ pc = "main"
    /\ IF \A i \in 1..Len(config) : IsFloat(config[i])
       THEN /\ arms' = from_file(config)
            /\ pc' = "experiment"
            /\ UNCHANGED exception
       ELSE /\ exception' = "ValueError"
            /\ pc' = "raised"
            /\ UNCHANGED arms
    /\ UNCHANGED <<config, rng, agentVars, runVars, arm_idx, mainVars>>

\* run_experiment, lines 73-84: the agent is constructed, the totals are zeroed
StartExperiment ==
    /\ pc = "experiment"
    /\ pending # <<>>
    /\ pending' = Tail(pending)
    /\ agent' = Head(pending).class
    /\ epsilon' = Head(pending).epsilon
    /\ arm_counts' = None
    /\ arm_values' = None
    /\ total_counts' = 0
    /\ thompson_arms' = None
    /\ choose' = NoChoice
    /\ history' = <<>>
    /\ cumulative_rewards' = Repeat(0, num_plays)
    /\ regrets' = Repeat(0, num_plays)
    /\ total_reward' = 0
    /\ total_regret' = 0
    /\ t' = 0
    /\ IF arms = <<>>
       THEN /\ exception' = "ValueError"
            /\ pc' = "raised"
            /\ UNCHANGED best_expected
       ELSE /\ best_expected' = getMaxExpectedReward
            /\ pc' = IF num_plays > 0 THEN "recommend" ELSE "return"
            /\ UNCHANGED exception
    /\ UNCHANGED <<banditVars, rng, num_plays, arm_idx, rewards_results,
                   regret_results, execution, first_rewards, first_regrets,
                   calls>>

\* run_experiment, line 86: the history passed to recommendArm is the list itself
history_argument == history

\* what a recommendArm call of run_experiment leaves alone
RecommendFrame ==
    /\ pc' = "pull"
    /\ UNCHANGED <<banditVars, agent, epsilon, runVars, exception, mainVars>>

\* run_experiment, line 86, for a randomAgent
RecommendRandom ==
    /\ pc = "recommend"
    /\ agent = "randomAgent"
    /\ randomAgent_recommendArm(history_argument)
    /\ RecommendFrame

\* run_experiment, line 86, for an epsGreedyAgent
RecommendGreedy ==
    /\ pc = "recommend"
    /\ agent = "epsGreedyAgent"
    /\ epsGreedyAgent_recommendArm(history_argument)
    /\ RecommendFrame

\* run_experiment, line 86, for a UCBAgent
RecommendUCB ==
    /\ pc = "recommend"
    /\ agent = "UCBAgent"
    /\ UCBAgent_recommendArm(history_argument)
    /\ RecommendFrame

\* run_experiment, line 86, for a thompsonAgent
RecommendThompson ==
    /\ pc = "recommend"
    /\ agent = "thompsonAgent"
    /\ thompsonAgent_recommendArm(history_argument)
    /\ RecommendFrame

\* run_experiment, line 86, for a custom agent class
RecommendCustom ==
    /\ pc = "recommend"
    /\ agent = "customAgent"
    /\ customAgent_recommendArm(history_argument)
    /\ RecommendFrame

\* step_regret with the operands exchanged
step_regret_exchanged(i) == Item(arms, i) - best_expected

\* step_regret = best_expected - bandit.arms[arm_idx]
step_regret(i) == best_expected - Item(arms, i)

\* run_experiment, lines 89-102: the pull and the bookkeeping of one round
Pull ==
    /\ pc = "pull"
    /\ IF InRange(arms, arm_idx)
       THEN \E r \in NextDraws(rng, 0) :
               LET reward == pull_arm(arm_idx, r)
               IN  /\ rng' = Advance(rng, 1)
                   /\ total_reward' = total_reward + reward
                   /\ cumulative_rewards' =
                          [cumulative_rewards EXCEPT ![t + 1] = total_reward + reward]
                   /\ total_regret' = total_regret + step_regret(arm_idx)
                   /\ regrets' =
                          [regrets EXCEPT ![t + 1] = total_regret + step_regret(arm_idx)]
                   /\ history' = Append(history, <<arm_idx, reward>>)
                   /\ t' = t + 1
                   /\ pc' = IF t + 1 < num_plays THEN "recommend" ELSE "return"
                   /\ UNCHANGED exception
       ELSE /\ exception' = "IndexError"
            /\ pc' = "raised"
            /\ UNCHANGED <<rng, total_reward, cumulative_rewards, total_regret,
                           regrets, history, t>>
    /\ UNCHANGED <<banditVars, agentVars, best_expected, num_plays, arm_idx,
                   mainVars>>

\* run_experiment, line 110, and main, lines 194-195: the results are stored
Return ==
    /\ pc = "return"
    /\ rewards_results' = SetItem(rewards_results, agent, cumulative_rewards)
    /\ regret_results' = SetItem(regret_results, agent, regrets)
    /\ pc' = IF pending # <<>> THEN "experiment" ELSE "done"
    /\ UNCHANGED <<banditVars, rng, agentVars, runVars, arm_idx, exception,
                   pending, execution, first_rewards, first_regrets, calls>>

\* the state when main starts: the file cfg, --num_plays n, generator g, agents as
Start(cfg, n, g, as) ==
    /\ config = cfg
    /\ arms = <<>>
    /\ rng = g
    /\ pending = as
    /\ agent = ""
    /\ epsilon = EpsilonDefault
    /\ arm_counts = None
    /\ arm_values = None
    /\ total_counts = 0
    /\ thompson_arms = None
    /\ choose = NoChoice
    /\ history = <<>>
    /\ cumulative_rewards = <<>>
    /\ regrets = <<>>
    /\ best_expected = 0
    /\ total_reward = 0
    /\ total_regret = 0
    /\ t = 0
    /\ num_plays = n
    /\ arm_idx = 0
    /\ pc = "main"
    /\ exception = ""
    /\ rewards_results = <<>>
    /\ regret_results = <<>>
    /\ execution = 1
    /\ first_rewards = <<>>
    /\ first_regrets = <<>>
    /\ calls = <<>>

\* one bandit file, one agent class, one experiment of 1..NumPlays rounds,
\* the generator seeded from the system
Init == \E cfg \in Configs, n \in 1..NumPlays, a \in AgentClasses :
            Start(cfg, n, Entropy, <<a>>)

Next == \/ Load
        \/ StartExperiment
        \/ RecommendRandom
        \/ RecommendGreedy
        \/ RecommendUCB
        \/ RecommendThompson
        \/ RecommendCustom
        \/ Pull
        \/ Return

Spec == Init /\ [][Next]_vars

-----------------------------------------------------------------------------
(* main run twice with one --seed on one bandit file *)

\* the program, run once, is started again with the same file and seed, the
\* agent classes being run in the order as
Restart(as) ==
    /\ pc = "done"
    /\ execution = 1
    /\ execution' = 2
    /\ first_rewards' = rewards_results
    /\ first_regrets' = regret_results
    /\ rng' = Seeded(rng.seed)
    /\ arms' = <<>>
    /\ pending' = as
    /\ agent' = ""
    /\ epsilon' = EpsilonDefault
    /\ arm_counts' = None
    /\ arm_values' = None
    /\ total_counts' = 0
    /\ thompson_arms' = None
    /\ choose' = NoChoice
    /\ history' = <<>>
    /\ cumulative_rewards' = <<>>
    /\ regrets' = <<>>
    /\ best_expected' = 0
    /\ total_reward' = 0
    /\ total_regret' = 0
    /\ t' = 0
    /\ arm_idx' = 0
    /\ pc' = "main"
    /\ rewards_results' = <<>>
    /\ regret_results' = <<>>
    /\ UNCHANGED <<config, num_plays, exception, calls>>

\* the program is run again with the same arguments
Rerun == Restart(AGENTS_MAP)

\* AGENTS_MAP with its i-th class moved to the front
MovedToFront(i) ==
    <<AGENTS_MAP[i]>> \o SubSeq(AGENTS_MAP, 1, i - 1)
                     \o SubSeq(AGENTS_MAP, i + 1, Len(AGENTS_MAP))

\* the program is run again with the same file and seed, one of the later
\* agent classes being run before the others
RerunReordered == \E i \in 2..Len(AGENTS_MAP) : Restart(MovedToFront(i))

\* main with --seed s on one bandit file: every class of AGENTS_MAP in turn
InitMain == \E cfg \in Configs, s \in 0..(NumSeeds - 1) :
                Start(cfg, NumPlays, Seeded(s), AGENTS_MAP)

NextMain == \/ Load
            \/ StartExperiment
            \/ RecommendRandom
            \/ RecommendGreedy
            \/ RecommendUCB
            \/ RecommendThompson
            \/ Pull
            \/ Return
            \/ Rerun

SpecMain == InitMain /\ [][NextMain]_vars

\* main with a seed, then main again with the agent classes in another order
NextOrder == \/ Load
             \/ StartExperiment
             \/ RecommendRandom
             \/ RecommendGreedy
             \/ RecommendUCB
             \/ RecommendThompson
             \/ Pull
             \/ Return
             \/ RerunReordered

SpecOrder == InitMain /\ [][NextOrder]_vars

-----------------------------------------------------------------------------
(* An agent called directly: each observation is delivered once, the        *)
(* observations being split over the calls in any way.  history holds all   *)
(* the observations delivered so far and t counts the calls.                *)

\* the observations of a bandit with k arms
Observations(k) == (0..(k - 1)) \X {0, 1}

\* the histories of at most m observations
Histories(k, m) == UNION { [1..n -> Observations(k)] : n \in 0..m }

\* what a direct call leaves alone
DirectFrame(h) ==
    /\ pc = "direct"
    /\ t < MaxCalls
    /\ Len(history) + Len(h) <= MaxDelivered
    /\ history' = history \o h
    /\ t' = t + 1
    /\ UNCHANGED <<banditVars, agent, epsilon, cumulative_rewards, regrets,
                   best_expected, total_reward, total_regret, num_plays, pc,
                   exception, mainVars>>

CallRandom ==
    \E h \in Histories(getNumArms, MaxChunk) :
        /\ agent = "randomAgent"
        /\ DirectFrame(h)
        /\ randomAgent_recommendArm(h)

CallGreedy ==
    \E h \in Histories(getNumArms, MaxChunk) :
        /\ agent = "epsGreedyAgent"
        /\ DirectFrame(h)
        /\ epsGreedyAgent_recommendArm(h)

CallUCB ==
    \E h \in Histories(getNumArms, MaxChunk) :
        /\ agent = "UCBAgent"
        /\ DirectFrame(h)
        /\ UCBAgent_recommendArm(h)

CallThompson ==
    \E h \in Histories(getNumArms, MaxChunk) :
        /\ agent = "thompsonAgent"
        /\ DirectFrame(h)
        /\ thompsonAgent_recommendArm(h)

\* the bandit files a directly called agent is given
DirectConfigs == { <<"0.5">>, <<"0.2", "0.8">> }

\* a fresh agent of one of the four classes and a loaded bandit
InitDirect ==
    \E cfg \in DirectConfigs, a \in AgentClasses \ {Factory("customAgent", EpsilonDefault)} :
        /\ config = cfg
        /\ arms = from_file(cfg)
        /\ rng = Entropy
        /\ pending = <<>>
        /\ agent = a.class
        /\ epsilon = a.epsilon
        /\ arm_counts = None
        /\ arm_values = None
        /\ total_counts = 0
        /\ thompson_arms = None
        /\ choose = NoChoice
        /\ history = <<>>
        /\ cumulative_rewards = <<>>
        /\ regrets = <<>>
        /\ best_expected = 0
        /\ total_reward = 0
        /\ total_regret = 0
        /\ t = 0
        /\ num_plays = 0
        /\ arm_idx = 0
        /\ pc = "direct"
        /\ exception = ""
        /\ rewards_results = <<>>
        /\ regret_results = <<>>
        /\ execution = 1
        /\ first_rewards = <<>>
        /\ first_regrets = <<>>
        /\ calls = <<>>

NextDirect == \/ CallRandom
              \/ CallGreedy
              \/ CallUCB
              \/ CallThompson

SpecDirect == InitDirect /\ [][NextDirect]_vars

-----------------------------------------------------------------------------
(* One agent class called with the same histories on two bandits *)

\* agent.recommendArm(bandit, h) of the class under call
recommendArm(h) ==
    \/ agent = "randomAgent" /\ randomAgent_recommendArm(h)
    \/ agent = "epsGreedyAgent" /\ epsGreedyAgent_recommendArm(h)
    \/ agent = "UCBAgent" /\ UCBAgent_recommendArm(h)
    \/ agent = "thompsonAgent" /\ thompsonAgent_recommendArm(h)

\* the attributes the agent classes keep between calls
statistics == <<arm_counts, arm_values, total_counts, thompson_arms>>

\* what a call on one of the two bandits leaves alone
PairFrame(h) ==
    /\ pc = "paired"
    /\ history' = history \o h
    /\ t' = t + 1
    /\ UNCHANGED <<banditVars, agent, epsilon, cumulative_rewards, regrets,
                   best_expected, total_reward, total_regret, num_plays, pc,
                   exception, pending, rewards_results, regret_results,
                   execution, first_rewards, first_regrets>>

\* calls made on each bandit of a pair, and observations delivered by them:
\* every call is made twice
PairCalls == MaxCalls - 1

PairDelivered == MaxDelivered - 1

\* a call on the first bandit; the history, the arm returned and the
\* statistics it leaves are noted
FirstCall ==
    \E h \in Histories(getNumArms, MaxChunk) :
        /\ execution = 1
        /\ t < PairCalls
        /\ Len(history) + Len(h) <= PairDelivered
        /\ PairFrame(h)
        /\ recommendArm(h)
        /\ calls' = Append(calls, [history |-> h, arm |-> arm_idx',
                                   statistics |-> statistics'])

\* the bandit files of the pairs: two of each arm count
PairConfigs == { <<"0.5">>, <<"0.9">>, <<"0.2", "0.8">>, <<"0.8", "0.2">> }

\* a bandit of the same arm count and other probabilities is loaded, a fresh
\* agent of the same class is constructed and both generators are seeded as
\* before
OtherBandit ==
    \E cfg \in PairConfigs :
        /\ pc = "paired"
        /\ execution = 1
        /\ t = PairCalls
        /\ Len(cfg) = Len(config)
        /\ from_file(cfg) # arms
        /\ config' = cfg
        /\ arms' = from_file(cfg)
        /\ execution' = 2
        /\ rng' = SeededBoth(rng.seed)
        /\ arm_counts' = None
        /\ arm_values' = None
        /\ total_counts' = 0
        /\ thompson_arms' = None
        /\ choose' = NoChoice
        /\ history' = <<>>
        /\ t' = 0
        /\ arm_idx' = 0
        /\ UNCHANGED <<agent, epsilon, cumulative_rewards, regrets,
                       best_expected, total_reward, total_regret, num_plays,
                       pc, exception, pending, rewards_results,
                       regret_results, first_rewards, first_regrets, calls>>

\* the next call on the second bandit, with the history of the same call on
\* the first
SecondCall ==
    /\ execution = 2
    /\ t < Len(calls)
    /\ PairFrame(calls[t + 1].history)
    /\ recommendArm(calls[t + 1].history)
    /\ UNCHANGED calls

\* a fresh agent of one of the four classes, a loaded bandit, seeded generators
InitPair ==
    \E cfg \in PairConfigs, s \in 0..(NumSeeds - 1),
       a \in AgentClasses \ {Factory("customAgent", EpsilonDefault)} :
        /\ config = cfg
        /\ arms = from_file(cfg)
        /\ rng = SeededBoth(s)
        /\ pending = <<>>
        /\ agent = a.class
        /\ epsilon = a.epsilon
        /\ arm_counts = None
        /\ arm_values = None
        /\ total_counts = 0
        /\ thompson_arms = None
        /\ choose = NoChoice
        /\ history = <<>>
        /\ cumulative_rewards = <<>>
        /\ regrets = <<>>
        /\ best_expected = 0
        /\ total_reward = 0
        /\ total_regret = 0
        /\ t = 0
        /\ num_plays = 0
        /\ arm_idx = 0
        /\ pc = "paired"
        /\ exception = ""
        /\ rewards_results = <<>>
        /\ regret_results = <<>>
        /\ execution = 1
        /\ first_rewards = <<>>
        /\ first_regrets = <<>>
        /\ calls = <<>>

NextPair == \/ FirstCall
            \/ OtherBandit
            \/ SecondCall

SpecPair == InitPair /\ [][NextPair]_vars

-----------------------------------------------------------------------------
(* Properties *)

\* the rounds of this experiment in which arm a (0-based) was pulled
PullsOf(a) == {i \in 1..Len(history) : history[i][1] = a}

\* the observations of arm a (0-based) with reward r
Outcomes(a, r) == {i \in 1..Len(history) : history[i] = <<a, r>>}

KeepsMeans == agent \in {"epsGreedyAgent", "UCBAgent"}

ArmIndices == 0..(getNumArms - 1)

\* C1: when recommendArm of an epsGreedyAgent or a UCBAgent has returned in
\* run_experiment, arm_counts[a] is the number of earlier rounds of the
\* experiment in which arm a was pulled, for every arm a.
C1_CountsArePulls ==
    (KeepsMeans /\ pc = "pull") =>
        \A a \in ArmIndices : Val(arm_counts)[a + 1] = Cardinality(PullsOf(a))

\* C2: the history a recommendArm call of run_experiment is given holds only
\* the observations made since the previous call: none before the first
\* round, one before every later round.
C2_OnlyNewObservations ==
    pc = "recommend" => Len(history_argument) = (IF t = 0 THEN 0 ELSE 1)

\* C3: a fresh UCBAgent driven by run_experiment on k arms chooses arms
\* 0, 1, ..., k-1 in its first k rounds, whatever the rewards, and whenever
\* some arm has a zero count it returns the lowest-indexed such arm.
C3_UCBWarmUp ==
    (agent = "UCBAgent" /\ pc \in {"recommend", "pull", "return"}) =>
        /\ \A i \in 1..Len(history) : i <= getNumArms => history[i][1] = i - 1
        /\ pc = "pull" =>
              /\ t < getNumArms => arm_idx = t
              /\ (\E a \in ArmIndices : Val(arm_counts)[a + 1] = 0) =>
                    /\ choose = "initial play"
                    /\ Val(arm_counts)[arm_idx + 1] = 0
                    /\ \A a \in ArmIndices : a < arm_idx => Val(arm_counts)[a + 1] > 0

\* C3 witness: the three arms of a 3-arm bandit have been pulled in order and
\* the agent has gone on to choose by the confidence bounds.
C3_Witness ==
    /\ agent = "UCBAgent"
    /\ getNumArms = 3
    /\ pc = "pull"
    /\ t = 3
    /\ history[1][1] = 0 /\ history[2][1] = 1 /\ history[3][1] = 2
    /\ choose = "max UCB"

\* the bandit file of the epsilon = 0 scenario: probabilities 0.1, 0.9, 0.5
GreedyScenario == <<"0.1", "0.9", "0.5">>

InGreedyScenario == /\ agent = "epsGreedyAgent"
                    /\ epsilon = 0
                    /\ config = GreedyScenario

\* C4 as stated: with epsilon = 0 on probabilities 0.1, 0.9, 0.5 the agent
\* never explores and ends up choosing arm 1: the choice of the last round of
\* a run of NumPlays rounds is arm 1.
C4_ConvergesToBestArm ==
    (InGreedyScenario /\ pc = "return" /\ num_plays = NumPlays) =>
        history[num_plays][1] = 1

\* C4 amended: with epsilon = 0 on probabilities 0.1, 0.9, 0.5 the agent
\* never takes the exploration branch and chooses arm 0 in every round; the
\* means of arms 1 and 2 stay 0.0.
C4_GreedyStaysOnArm0 ==
    (InGreedyScenario /\ pc = "pull") =>
        /\ choose = "exploit"
        /\ arm_idx = 0
        /\ Val(arm_values)[2] = FracOfInt(0)
        /\ Val(arm_values)[3] = FracOfInt(0)

\* C4 witness: in the last round of the scenario arm 0 has paid at least once
\* and is chosen again.
C4_Witness ==
    /\ InGreedyScenario
    /\ pc = "pull"
    /\ t = NumPlays - 1
    /\ FracGT(Val(arm_values)[1], FracOfInt(0))
    /\ arm_idx = 0

\* a sequence whose first n elements never decrease and start at or above 0
NonDecreasing(seq, n) ==
    \A i \in 1..n : seq[i] >= (IF i = 1 THEN 0 ELSE seq[i - 1])

\* C5: the cumulative pseudo-regret sequence of run_experiment never
\* decreases and is never negative, for every agent, bandit and round count:
\* over the rounds played so far, and over every sequence returned.
C5_RegretMonotone ==
    /\ pc \in {"recommend", "pull", "return"} => NonDecreasing(regrets, t)
    /\ pc = "return" => NonDecreasing(regrets, num_plays)
    /\ \A a \in DOMAIN regret_results :
          NonDecreasing(regret_results[a], Len(regret_results[a]))

\* C5 witness: a returned regret sequence that grew in its first round and
\* again later.
C5_Witness ==
    /\ pc = "return"
    /\ num_plays >= 2
    /\ regrets[1] > 0
    /\ regrets[num_plays] > regrets[1]

\* C6: the cumulative reward recorded after i rounds is an integer in 0..i,
\* and it grows by 0 or 1 from one round to the next.
C6_RewardBounded ==
    pc \in {"recommend", "pull", "return"} =>
        \A i \in 1..t :
            /\ cumulative_rewards[i] \in 0..i
            /\ cumulative_rewards[i] - (IF i = 1 THEN 0 ELSE cumulative_rewards[i - 1])
                   \in {0, 1}

\* C6 witness: a returned reward sequence with a round that paid and a later
\* round that did not.
C6_Witness ==
    /\ pc = "return"
    /\ num_plays >= 3
    /\ cumulative_rewards[1] = 1
    /\ cumulative_rewards[2] = 1
    /\ cumulative_rewards[num_plays] = num_plays - 1

C8_ThompsonPosterior ==
    (agent = "thompsonAgent" /\ pc = "pull") =>
        \A a \in ArmIndices :
            /\ Val(thompson_arms)[a + 1].alpha = 1 + Cardinality(Outcomes(a, 1))
            /\ Val(thompson_arms)[a + 1].beta = 1 + Cardinality(Outcomes(a, 0))

\* C8 witness: arm 0 was pulled three times, paying twice, and the agent has
\* decided again: its posterior is (alpha = 3, beta = 2).
C8_Witness ==
    /\ agent = "thompsonAgent"
    /\ pc = "pull"
    /\ Cardinality(PullsOf(0)) = 3
    /\ Val(thompson_arms)[1] = [alpha |-> 3, beta |-> 2]

\* C9: a pull of an index outside 0..numArms-1 fails, so run_experiment
\* never records a round whose arm index is below 0 or at or above numArms.
C9_OutOfRangeIsFatal ==
    \A i \in 1..Len(history) :
        /\ history[i][1] >= 0
        /\ history[i][1] < getNumArms

\* C10: a second execution of the comparison with the same seed and the same
\* bandit file ends with the same cumulative-reward and cumulative-regret
\* sequences for each of the four agents.
C10_SameSeedSameResults ==
    (execution = 2 /\ pc = "done") =>
        /\ rewards_results = first_rewards
        /\ regret_results = first_regrets


\* the four agent classes of AGENTS_MAP
FourAgents == {"randomAgent", "epsGreedyAgent", "UCBAgent", "thompsonAgent"}

\* C11: every recommendArm call of each of the four agents on a bandit with
\* at least one arm, after any earlier calls with in-range histories, returns
\* an index in 0..numArms-1; UCBAgent never returns its initial best_i = -1.
C11_ReturnsValidArm ==
    (pc = "direct" /\ agent \in FourAgents /\ t >= 1) =>
        /\ arm_idx \in ArmIndices
        /\ arm_idx # -1

\* C11 witness: a UCBAgent past its warm-up on two arms has returned arm 1
\* from the scan of the confidence bounds.
C11_Witness ==
    /\ pc = "direct"
    /\ agent = "UCBAgent"
    /\ getNumArms = 2
    /\ choose = "max UCB"
    /\ arm_idx = 1

\* C12: on a bandit with exactly one arm each of the four agents driven by
\* run_experiment returns arm 0 in every round, nothing is raised, and the
\* cumulative regret is 0 at every round.
C12_SingleArm ==
    (getNumArms = 1 /\ agent \in FourAgents) =>
        /\ exception = ""
        /\ pc = "pull" => arm_idx = 0
        /\ \A i \in 1..Len(history) : history[i][1] = 0
        /\ total_regret = 0
        /\ \A i \in 1..Len(regrets) : regrets[i] = 0

\* C12 witness: a UCBAgent has finished NumPlays rounds on one arm, the last
\* of them chosen by the confidence bound with ln(total_counts) defined.
C12_Witness ==
    /\ getNumArms = 1
    /\ agent = "UCBAgent"
    /\ pc = "return"
    /\ num_plays = NumPlays
    /\ choose = "max UCB"
    /\ total_counts >= 1
    /\ exception = ""

\* C14: a bandit built from a file has every probability within [0, 1]: a
\* file holding a value below 0 or above 1 is rejected at load.
C14_ProbabilitiesValidated ==
    \A i \in 1..Len(arms) : arms[i] >= 0 /\ arms[i] <= 100

\* C15: a file with no probability line is fatal at load: once the bandit is
\* built it has at least one arm, and no experiment is entered, and no agent
\* constructed, for a bandit without arms.
C15_EmptyFileFatalAtLoad ==
    /\ pc = "experiment" => getNumArms >= 1
    /\ agent # "" => getNumArms >= 1

\* the sum of alpha and beta over all arms of a posterior list
RECURSIVE CounterSum(_)
CounterSum(ab) ==
    IF ab = <<>> THEN 0 ELSE Head(ab).alpha + Head(ab).beta + CounterSum(Tail(ab))

\* one recommendArm call of a thompsonAgent with a history of m observations:
\* for m = 0 no counter changes; for m >= 1 one counter of the arm of the
\* last observation rises by 1 and nothing else changes
ThompsonCallEffect ==
    (agent = "thompsonAgent" /\ pc = "direct" /\ t' = t + 1) =>
        LET m      == Len(history') - Len(history)
            before == thompson_init
            after  == Val(thompson_arms')
            last   == history'[Len(history')]
        IN  IF m = 0 THEN after = before
            ELSE /\ \A a \in ArmIndices :
                       a # last[1] => after[a + 1] = before[a + 1]
                 /\ after[last[1] + 1] =
                       (IF last[2] = 1
                        THEN [before[last[1] + 1] EXCEPT !.alpha = @ + 1]
                        ELSE [before[last[1] + 1] EXCEPT !.beta = @ + 1])
                 /\ CounterSum(after) = CounterSum(before) + 1

\* C16: a thompsonAgent ingests only the most recent observation of a call:
\* every call changes the counters as ThompsonCallEffect says, so the sum of
\* all alpha and beta is 2 * numArms plus the number of calls with a
\* non-empty history (never more than 2 * numArms plus the number of calls).
C16_LastObservationOnly ==
    /\ [][ThompsonCallEffect]_vars
    /\ []((agent = "thompsonAgent" /\ pc = "direct") =>
             /\ CounterSum(thompson_init) >= 2 * getNumArms
             /\ CounterSum(thompson_init) <= 2 * getNumArms + t)

\* C16 witness: one call with a history of two observations has raised the
\* sum of the counters by one only.
C16_Witness ==
    /\ agent = "thompsonAgent"
    /\ pc = "direct"
    /\ t = 1
    /\ Len(history) = 2
    /\ CounterSum(thompson_init) = 2 * getNumArms + 1

\* C17: when an epsGreedyAgent exploits it returns the lowest index among the
\* arms whose running mean is the greatest; before any observation it
\* returns arm 0.
C17_ExploitsFirstMaximum ==
    (agent = "epsGreedyAgent" /\ pc = "direct" /\ t >= 1 /\ choose = "exploit") =>
        LET v == Val(arm_values)
        IN  /\ \A a \in ArmIndices : ~FracGT(v[a + 1], v[arm_idx + 1])
            /\ \A a \in ArmIndices : a < arm_idx => FracGT(v[arm_idx + 1], v[a + 1])
            /\ history = <<>> => arm_idx = 0

\* C17 witness: both arms have the same non-zero mean and the agent exploits
\* arm 0.
C17_Witness ==
    /\ agent = "epsGreedyAgent"
    /\ pc = "direct"
    /\ choose = "exploit"
    /\ getNumArms = 2
    /\ Val(arm_values)[1] = FracOfInt(1)
    /\ Val(arm_values)[2] = FracOfInt(1)
    /\ arm_idx = 0

\* the sum of a list of integers
RECURSIVE SeqSum(_)
SeqSum(xs) == IF xs = <<>> THEN 0 ELSE Head(xs) + SeqSum(Tail(xs))

\* C18: in every state of a UCBAgent total_counts is the sum of arm_counts,
\* and whenever the confidence bounds were evaluated total_counts >= 1 and
\* every arm_counts[i] >= 1.
C18_TotalIsSumOfCounts ==
    (agent = "UCBAgent" /\ pc = "direct") =>
        /\ total_counts = (IF IsNone(arm_counts) THEN 0 ELSE SeqSum(Val(arm_counts)))
        /\ choose = "max UCB" =>
              /\ total_counts >= 1
              /\ \A a \in ArmIndices : Val(arm_counts)[a + 1] >= 1

\* C18 witness: the bounds were evaluated with counts 1 and 3, total 4.
C18_Witness ==
    /\ agent = "UCBAgent"
    /\ pc = "direct"
    /\ choose = "max UCB"
    /\ Val(arm_counts) = <<1, 3>>
    /\ total_counts = 4

\* one step of an experiment with a UCBAgent: no count decreases, and once
\* every arm has a count >= 1 a call takes the steady-state branch
UCBPhaseStep ==
    (agent = "UCBAgent" /\ agent' = "UCBAgent" /\ ~IsNone(arm_counts)) =>
        /\ \A a \in ArmIndices : Val(arm_counts')[a + 1] >= Val(arm_counts)[a + 1]
        /\ choose = "max UCB" => choose' = "max UCB"
        /\ ((\A a \in ArmIndices : Val(arm_counts)[a + 1] >= 1) /\ pc = "recommend")
               => choose' = "max UCB"

\* C19: the phase of a UCBAgent only moves forward (UCBPhaseStep), and under
\* run_experiment with k arms the steady state is reached exactly at the
\* (k+1)-th call: the call of round t takes the warm-up branch when t < k and
\* the steady-state branch when t >= k.
C19_UCBPhaseForward ==
    /\ [][UCBPhaseStep]_vars
    /\ []((agent = "UCBAgent" /\ pc = "pull") =>
             /\ t < getNumArms => choose = "initial play"
             /\ t >= getNumArms => choose = "max UCB")

\* C19 witness: on two arms the third call is the first to take the
\* steady-state branch.
C19_Witness ==
    /\ agent = "UCBAgent"
    /\ getNumArms = 2
    /\ pc = "pull"
    /\ t = 2
    /\ choose = "max UCB"

\* the agent classes whose draws all come from the `random` generator
SeededAgents == {"randomAgent", "epsGreedyAgent", "UCBAgent"}

\* C13: the experiments of one comparison are independent: no state written
\* during one agent's experiment is read during another's, so the generator
\* state every experiment starts from is the one the seed fixed, and with the
\* same seed and file an agent's result sequences are the same whichever
\* experiments ran before it.  (Stated for the agents whose draws all come
\* from the seeded generator.)
C13_ExperimentsIndependent ==
    /\ (pc = "experiment" /\ execution = 1) => rng = Seeded(rng.seed)
    /\ (pc = "done" /\ execution = 2) =>
          \A a \in SeededAgents :
              /\ rewards_results[a] = first_rewards[a]
              /\ regret_results[a] = first_regrets[a]

\* C20: agents do not read the bandit's true probabilities: on two bandits
\* of the same arm count and different arm probabilities, an agent of any of
\* the four classes that is given the same sequence of histories and the same
\* random draws returns, on every call, the arm it returned on the first
\* bandit and is left with the same internal statistics.
C20_ProbabilitiesNotRead ==
    (pc = "paired" /\ execution = 2 /\ t >= 1) =>
        /\ arm_idx = calls[t].arm
        /\ statistics = calls[t].statistics

\* C20 witness: the last call of an epsGreedyAgent on the second two-armed
\* bandit exploits arm 1 after two or more observations, the bandit's
\* probabilities being other than those of the first.
C20_Witness ==
    /\ pc = "paired"
    /\ execution = 2
    /\ agent = "epsGreedyAgent"
    /\ getNumArms = 2
    /\ t = Len(calls)
    /\ t >= 2
    /\ Len(history) >= 2
    /\ choose = "exploit"
    /\ arm_idx = 1
=============================================================================
